---- MODULE Spec2Model ----
(***************************************************************************)
(* A model of internal/logging/logging.go: the two log sinks               *)
(* (NewStderrLog, NewDeferLog) with their producers, worker goroutine and  *)
(* join closure, and the pure helpers (stderrLogInfo.String, plural,       *)
(* Source.RangeOfString, ComputeLineAndColumn, renderTabStops,             *)
(* detailStruct).                                                          *)
(*                                                                         *)
(* Go strings are sequences of bytes (numbers 0..255); TLA+ strings are    *)
(* used only where the code builds text with fmt.Sprintf.                  *)
(***************************************************************************)
EXTENDS Integers, Sequences, FiniteSets, TLC

(***************************************************************************)
(* Bounds of the model.                                                    *)
(***************************************************************************)
NumProducers == 2
MaxMsgs == 3
MaxErrorLimit == 2
MaxCount == 9
MaxQuoteLen == 5
MaxLineTokens == 4
MaxTextLen == 5
MaxWidth == 8
MaxTabTokens == 4

(***************************************************************************)
(* Program constants.                                                      *)
(***************************************************************************)
LevelNone == 0
LevelInfo == 1
LevelWarning == 2
LevelError == 3

Error == 0
Warning == 1

LogLevels == {LevelNone, LevelInfo, LevelWarning, LevelError}

VARIABLES
  flavor,    \* "stderr" (NewStderrLog) or "defer" (NewDeferLog)
  options,   \* StderrOptions: [ErrorLimit, LogLevel]
  ppc,       \* each producer: "ready", "blocked" (in log.msgs <- m), "panicked"
  sending,   \* the Msg each blocked producer is sending on the msgs channel
  calls,     \* the Msg of every enqueue call each producer has started, in order
  closed,    \* the msgs channel is closed
  wpc,       \* worker goroutine: "range", "body", "done", "exit"
  msg,       \* the worker's loop variable
  result,    \* the worker's stderrLogInfo (for NewDeferLog only msgs is used)
  stderr,    \* what was written to os.Stderr, one entry per write
  jpc,       \* the join closure: "idle", "recv", "print", "returned"
  joinResult,\* what the join closure received on the done channel
  returned,  \* the []Msg the join closure returned
  aborted,   \* the process was ended by an unrecovered panic
  accepted,  \* history: the messages in the order the worker received them
  input,     \* the arguments of a call of a pure function
  output     \* its result

vars == <<flavor, options, ppc, sending, calls, closed, wpc, msg, result,
          stderr, jpc, joinResult, returned, aborted, accepted, input, output>>

Producers == 1..NumProducers

NoMsg == [Text |-> "", Length |-> 0, Kind |-> Error]
NoInput == [op |-> "none"]
NoOutput == [op |-> "none"]

(***************************************************************************)
(* plural and stderrLogInfo.String                                         *)
(***************************************************************************)
pluralZeroSingular(prefix, count) ==
  IF count <= 1
    THEN ToString(count) \o " " \o prefix
    ELSE ToString(count) \o " " \o prefix \o "s"

plural(prefix, count) ==
  IF count = 1
    THEN ToString(count) \o " " \o prefix
    ELSE ToString(count) \o " " \o prefix \o "s"

String(counts) ==
  IF counts.errors = 0
    THEN IF counts.warnings = 0
           THEN "no errors"
           ELSE plural("warning", counts.warnings)
    ELSE IF counts.warnings = 0
           THEN plural("error", counts.errors)
           ELSE plural("warning", counts.warnings) \o " and " \o
                plural("error", counts.errors)

(***************************************************************************)
(* Msg.String for a message without a Source and without colour escapes.   *)
(***************************************************************************)
MsgString(m) ==
  (IF m.Kind = Warning THEN "warning" ELSE "error") \o ": " \o m.Text \o "\n"

(***************************************************************************)
(* The messages the producers build.  Text names the producer and the      *)
(* index of the call, so every Msg value is distinct.  The sinks never     *)
(* read Source, Start or Length: the messages here have no Source, and the *)
(* ranges the producers pass are the point ranges of RangeLens (ranges     *)
(* with a length are rendered under DetailSpec).                           *)
(***************************************************************************)
RangeLens == {0}

MsgText(p, n) == "p" \o ToString(p) \o "#" \o ToString(n)

NewMsg(p, len, kind) ==
  [Text |-> MsgText(p, Len(calls[p]) + 1), Length |-> len, Kind |-> kind]

TotalCalls == LET S[k \in 0..NumProducers] ==
                    IF k = 0 THEN 0 ELSE S[k - 1] + Len(calls[k])
              IN  S[NumProducers]

(***************************************************************************)
(* log.msgs <- m: a send on the unbuffered channel.  The sender blocks     *)
(* until the worker receives; a send on a closed channel panics.           *)
(***************************************************************************)
Send(p, m) ==
  /\ ~aborted
  /\ ppc[p] = "ready"
  /\ TotalCalls < MaxMsgs
  /\ calls' = [calls EXCEPT ![p] = Append(@, m)]
  /\ IF closed
       THEN /\ ppc' = [ppc EXCEPT ![p] = "panicked"]
            /\ UNCHANGED sending
       ELSE /\ ppc' = [ppc EXCEPT ![p] = "blocked"]
            /\ sending' = [sending EXCEPT ![p] = m]
  /\ UNCHANGED <<flavor, options, closed, wpc, msg, result, stderr, jpc,
                 joinResult, returned, aborted, accepted, input, output>>

AddError(p) == Send(p, NewMsg(p, 0, Error))

AddWarning(p) == Send(p, NewMsg(p, 0, Warning))

AddRangeError(p) == \E len \in RangeLens : Send(p, NewMsg(p, len, Error))

AddRangeWarning(p) == \E len \in RangeLens : Send(p, NewMsg(p, len, Warning))

(***************************************************************************)
(* for msg := range msgs: the worker receives from one blocked sender,     *)
(* which then returns from its enqueue call.                               *)
(***************************************************************************)
WorkerReceive ==
  /\ ~aborted
  /\ wpc = "range"
  /\ \E p \in Producers :
       /\ ppc[p] = "blocked"
       /\ msg' = sending[p]
       /\ sending' = [sending EXCEPT ![p] = NoMsg]
       /\ ppc' = [ppc EXCEPT ![p] = "ready"]
       /\ accepted' = Append(accepted, sending[p])
  /\ wpc' = "body"
  /\ UNCHANGED <<flavor, options, calls, closed, result, stderr, jpc,
                 joinResult, returned, aborted, input, output>>

(***************************************************************************)
(* The body of the worker loop of NewStderrLog, on the pair                *)
(* [info: stderrLogInfo, out: what os.Stderr holds].                       *)
(***************************************************************************)
AppendMsgUnlessLimitHit(info, m) ==
  IF info.errorLimitWasHit THEN info ELSE [info EXCEPT !.msgs = Append(@, m)]

AppendMsgInFront(info, m) == [info EXCEPT !.msgs = <<m>> \o @]

AppendMsg(info, m) == [info EXCEPT !.msgs = Append(@, m)]

CountAndWriteInFront(s, m, opts) ==
  IF m.Kind = Error
    THEN [info |-> [s.info EXCEPT !.errors = @ + 1],
          out  |-> IF opts.LogLevel <= LevelError
                     THEN <<[line |-> "msg", text |-> MsgString(m)]>> \o s.out
                     ELSE s.out]
    ELSE [info |-> [s.info EXCEPT !.warnings = @ + 1],
          out  |-> IF opts.LogLevel <= LevelWarning
                     THEN <<[line |-> "msg", text |-> MsgString(m)]>> \o s.out
                     ELSE s.out]

CountAndWriteOnlyPrinted(s, m, opts) ==
  IF m.Kind = Error
    THEN IF opts.LogLevel <= LevelError
           THEN [info |-> [s.info EXCEPT !.errors = @ + 1],
                 out  |-> Append(s.out, [line |-> "msg", text |-> MsgString(m)])]
           ELSE s
    ELSE IF opts.LogLevel <= LevelWarning
           THEN [info |-> [s.info EXCEPT !.warnings = @ + 1],
                 out  |-> Append(s.out, [line |-> "msg", text |-> MsgString(m)])]
           ELSE s

CountAndWrite(s, m, opts) ==
  IF m.Kind = Error
    THEN [info |-> [s.info EXCEPT !.errors = @ + 1],
          out  |-> IF opts.LogLevel <= LevelError
                     THEN Append(s.out, [line |-> "msg", text |-> MsgString(m)])
                     ELSE s.out]
    ELSE [info |-> [s.info EXCEPT !.warnings = @ + 1],
          out  |-> IF opts.LogLevel <= LevelWarning
                     THEN Append(s.out, [line |-> "msg", text |-> MsgString(m)])
                     ELSE s.out]

LimitNotice(info) ==
  [line |-> "limit",
   text |-> String(info) \o " reached (disable error limit with --error-limit=0)\n"]

CheckLimitOffByOne(s, opts) ==
  IF opts.ErrorLimit # 0 /\ s.info.errors > opts.ErrorLimit
    THEN [info |-> [s.info EXCEPT !.errorLimitWasHit = TRUE],
          out  |-> IF opts.LogLevel <= LevelError
                     THEN Append(s.out, LimitNotice(s.info))
                     ELSE s.out]
    ELSE s

CheckLimit(s, opts) ==
  IF opts.ErrorLimit # 0 /\ s.info.errors >= opts.ErrorLimit
    THEN [info |-> [s.info EXCEPT !.errorLimitWasHit = TRUE],
          out  |-> IF opts.LogLevel <= LevelError
                     THEN Append(s.out, LimitNotice(s.info))
                     ELSE s.out]
    ELSE s

StderrBodyCountingAfterLimit(info, out, m, opts) ==
  LET s0 == [info |-> AppendMsg(info, m), out |-> out]
  IN  IF s0.info.errorLimitWasHit
        THEN [info |-> CountAndWrite(s0, m, opts).info, out |-> out]
        ELSE CheckLimit(CountAndWrite(s0, m, opts), opts)

StderrBody(info, out, m, opts) ==
  LET s0 == [info |-> AppendMsg(info, m), out |-> out]
  IN  IF s0.info.errorLimitWasHit
        THEN s0
        ELSE CheckLimit(CountAndWrite(s0, m, opts), opts)

(***************************************************************************)
(* The body of the worker loop of NewDeferLog.                             *)
(***************************************************************************)
DeferBodyPrinting(info, out, m) ==
  [info |-> AppendMsg(info, m),
   out  |-> Append(out, [line |-> "msg", text |-> MsgString(m)])]

DeferBody(info, out, m) == [info |-> AppendMsg(info, m), out |-> out]

WorkerBody ==
  /\ ~aborted
  /\ wpc = "body"
  /\ LET s == IF flavor = "stderr"
                THEN StderrBody(result, stderr, msg, options)
                ELSE DeferBody(result, stderr, msg)
     IN  /\ result' = s.info
         /\ stderr' = s.out
  /\ msg' = NoMsg
  /\ wpc' = "range"
  /\ UNCHANGED <<flavor, options, ppc, sending, calls, closed, jpc,
                 joinResult, returned, aborted, accepted, input, output>>

(***************************************************************************)
(* The range loop ends when the channel is closed (a closed unbuffered     *)
(* channel holds nothing); the worker then blocks in done <- result.       *)
(***************************************************************************)
WorkerLoopEndNoSignal ==
  /\ ~aborted
  /\ wpc = "range"
  /\ closed
  /\ wpc' = "exit"
  /\ UNCHANGED <<flavor, options, ppc, sending, calls, closed, msg, result,
                 stderr, jpc, joinResult, returned, aborted, accepted, input,
                 output>>

WorkerLoopEnd ==
  /\ ~aborted
  /\ wpc = "range"
  /\ closed
  /\ wpc' = "done"
  /\ UNCHANGED <<flavor, options, ppc, sending, calls, closed, msg, result,
                 stderr, jpc, joinResult, returned, aborted, accepted, input, output>>

(***************************************************************************)
(* The join closure: close(log.msgs).  Closing wakes every sender blocked  *)
(* on the channel with the panic "send on closed channel"; sending keeps   *)
(* the Msg such a sender was blocked with.                                 *)
(***************************************************************************)
JoinClose ==
  /\ ~aborted
  /\ jpc = "idle"
  /\ closed' = TRUE
  /\ ppc' = [p \in Producers |->
               IF ppc[p] = "blocked" THEN "panicked" ELSE ppc[p]]
  /\ jpc' = "recv"
  /\ UNCHANGED <<flavor, options, sending, calls, wpc, msg, result, stderr,
                 joinResult, returned, aborted, accepted, input, output>>

(***************************************************************************)
(* result := <-done, the rendezvous with the worker's done <- result.      *)
(***************************************************************************)
JoinReceive ==
  /\ ~aborted
  /\ jpc = "recv"
  /\ wpc = "done"
  /\ joinResult' = result
  /\ wpc' = "exit"
  /\ jpc' = "print"
  /\ UNCHANGED <<flavor, options, ppc, sending, calls, closed, msg, result,
                 stderr, returned, aborted, accepted, input, output>>

(***************************************************************************)
(* The rest of the join closure: the summary (NewStderrLog only) and the   *)
(* return of the messages.                                                 *)
(***************************************************************************)
SummaryAfterLimitToo(info, out, opts) ==
  IF opts.LogLevel <= LevelInfo /\ (info.warnings # 0 \/ info.errors # 0)
    THEN Append(out, [line |-> "summary", text |-> String(info) \o "\n"])
    ELSE out

Summary(info, out, opts) ==
  IF ~info.errorLimitWasHit /\ opts.LogLevel <= LevelInfo
     /\ (info.warnings # 0 \/ info.errors # 0)
    THEN Append(out, [line |-> "summary", text |-> String(info) \o "\n"])
    ELSE out

JoinReturn ==
  /\ ~aborted
  /\ jpc = "print"
  /\ stderr' = IF flavor = "stderr"
                 THEN Summary(joinResult, stderr, options)
                 ELSE stderr
  /\ returned' = joinResult.msgs
  /\ jpc' = "returned"
  /\ UNCHANGED <<flavor, options, ppc, sending, calls, closed, wpc, msg,
                 result, joinResult, aborted, accepted, input, output>>

(***************************************************************************)
(* An unrecovered panic of a producer goroutine ends the process.          *)
(***************************************************************************)
Abort ==
  /\ ~aborted
  /\ \E p \in Producers : ppc[p] = "panicked"
  /\ aborted' = TRUE
  /\ UNCHANGED <<flavor, options, ppc, sending, calls, closed, wpc, msg,
                 result, stderr, jpc, joinResult, returned, accepted, input, output>>

EmptyInfo == [msgs |-> <<>>, errors |-> 0, warnings |-> 0,
              errorLimitWasHit |-> FALSE]

SinkStart ==
  /\ ppc = [p \in Producers |-> "ready"]
  /\ sending = [p \in Producers |-> NoMsg]
  /\ calls = [p \in Producers |-> <<>>]
  /\ closed = FALSE
  /\ wpc = "range"
  /\ msg = NoMsg
  /\ result = EmptyInfo
  /\ stderr = <<>>
  /\ jpc = "idle"
  /\ joinResult = EmptyInfo
  /\ returned = <<>>
  /\ aborted = FALSE
  /\ accepted = <<>>

(***************************************************************************)
(* NewStderrLog(options) or NewDeferLog(), with the producers, the worker  *)
(* and the join closure.                                                   *)
(***************************************************************************)
Init ==
  /\ \/ /\ flavor = "stderr"
        /\ options \in [ErrorLimit : 0..MaxErrorLimit, LogLevel : LogLevels]
     \/ /\ flavor = "defer"
        /\ options = [ErrorLimit |-> 0, LogLevel |-> LevelNone]
  /\ SinkStart
  /\ input = NoInput
  /\ output = NoOutput

Next ==
  \/ \E p \in Producers : AddError(p)
  \/ \E p \in Producers : AddWarning(p)
  \/ \E p \in Producers : AddRangeError(p)
  \/ \E p \in Producers : AddRangeWarning(p)
  \/ WorkerReceive
  \/ WorkerBody
  \/ WorkerLoopEnd
  \/ JoinClose
  \/ JoinReceive
  \/ JoinReturn
  \/ Abort

Spec == Init /\ [][Next]_vars

(***************************************************************************)
(* The Go scheduler runs every goroutine that can take a step: the worker  *)
(* goroutine and the goroutine inside the join closure keep going.         *)
(***************************************************************************)
FairSpec ==
  /\ Spec
  /\ WF_vars(WorkerReceive)
  /\ WF_vars(WorkerBody)
  /\ WF_vars(WorkerLoopEnd)
  /\ WF_vars(JoinReceive)
  /\ WF_vars(JoinReturn)

(***************************************************************************)
(* Go strings: bytes, and the code points a range loop decodes from them.  *)
(* DecodeRune is exact for ASCII bytes, for the three-byte sequences with  *)
(* a lead byte 0xE1..0xEC (U+2028 and U+2029 are E2 80 A8 and E2 80 A9)    *)
(* and for stray continuation bytes; the model's texts hold no other byte. *)
(***************************************************************************)
Tab == 9
LF == 10
CR == 13
Space == 32
DoubleQuote == 34
SingleQuote == 39
Dot == 46
Backslash == 92
Caret == 94
Tilde == 126
LineSeparator == 8232
ParagraphSeparator == 8233
RuneError == 65533


\* Go's integer division truncates toward zero.
GoDiv(a, b) == IF a >= 0 THEN a \div b ELSE -((-a) \div b)

\* s[a:b] of Go, for 0 <= a <= b <= len(s).
GoSlice(s, a, b) == SubSeq(s, a + 1, b)

Repeat(b, n) == [i \in 1..n |-> b]

IsCont(b) == b >= 128 /\ b <= 191

\* The code point at Go index i of text and the number of bytes it takes.
DecodeRune(text, i) ==
  LET b == text[i + 1]
  IN  IF b < 128 THEN [rune |-> b, size |-> 1]
      ELSE IF /\ b >= 225 /\ b <= 236
              /\ i + 3 <= Len(text)
              /\ IsCont(text[i + 2]) /\ IsCont(text[i + 3])
        THEN [rune |-> (b % 16) * 4096 + (text[i + 2] % 64) * 64 + (text[i + 3] % 64),
              size |-> 3]
        ELSE [rune |-> RuneError, size |-> 1]

\* strings.Builder.WriteRune
EncodeRune(r) ==
  IF r < 128 THEN <<r>>
  ELSE <<224 + (r \div 4096), 128 + ((r \div 64) % 64), 128 + (r % 64)>>

(***************************************************************************)
(* Source.RangeOfString                                                    *)
(***************************************************************************)
RECURSIVE QuoteScan(_, _, _)
QuoteScan(text, quote, i) ==
  IF i >= Len(text) THEN 0
  ELSE LET c == text[i + 1]
       IN  IF c = quote THEN i + 1
           ELSE IF c = Backslash THEN QuoteScan(text, quote, i + 2)
           ELSE QuoteScan(text, quote, i + 1)

RangeOfStringDoubleQuoteOnly(contents, loc) ==
  LET text == GoSlice(contents, loc, Len(contents))
  IN  IF Len(text) = 0 THEN [Loc |-> loc, Len |-> 0]
      ELSE IF text[1] = DoubleQuote
        THEN [Loc |-> loc, Len |-> QuoteScan(text, text[1], 1)]
        ELSE [Loc |-> loc, Len |-> 0]

RangeOfString(contents, loc) ==
  LET text == GoSlice(contents, loc, Len(contents))
  IN  IF Len(text) = 0 THEN [Loc |-> loc, Len |-> 0]
      ELSE IF text[1] = DoubleQuote \/ text[1] = SingleQuote
        THEN [Loc |-> loc, Len |-> QuoteScan(text, text[1], 1)]
        ELSE [Loc |-> loc, Len |-> 0]

(***************************************************************************)
(* ComputeLineAndColumn                                                    *)
(***************************************************************************)
RECURSIVE LineScan(_, _, _, _, _)
LineScan(text, i, prevCodePoint, lineCount, lastLineStart) ==
  IF i >= Len(text)
    THEN [lineCount |-> lineCount,
          columnCount |-> Len(text) - lastLineStart,
          lastLineStart |-> lastLineStart]
    ELSE LET d == DecodeRune(text, i)
         IN  IF d.rune = LF
               THEN LineScan(text, i + d.size, d.rune,
                             IF prevCodePoint # CR THEN lineCount + 1 ELSE lineCount,
                             i + 1)
             ELSE IF d.rune \in {CR, LineSeparator, ParagraphSeparator}
               THEN LineScan(text, i + d.size, d.rune, lineCount, i + 1)
             ELSE LineScan(text, i + d.size, d.rune, lineCount, lastLineStart)

ComputeLineAndColumn(text) == LineScan(text, 0, 0, 0, 0)

(***************************************************************************)
(* renderTabStops                                                          *)
(***************************************************************************)
RECURSIVE ContainsRune(_, _, _)
ContainsRune(text, i, r) ==
  IF i >= Len(text) THEN FALSE
  ELSE LET d == DecodeRune(text, i)
       IN  d.rune = r \/ ContainsRune(text, i + d.size, r)

RECURSIVE TabScan(_, _, _, _, _)
TabScan(withTabs, i, spacesPerTab, withoutTabs, count) ==
  IF i >= Len(withTabs) THEN withoutTabs
  ELSE LET d == DecodeRune(withTabs, i)
       IN  IF d.rune = Tab
             THEN LET spaces == spacesPerTab - (count % spacesPerTab)
                  IN  TabScan(withTabs, i + d.size, spacesPerTab,
                              withoutTabs \o Repeat(Space, spaces), count + spaces)
             ELSE TabScan(withTabs, i + d.size, spacesPerTab,
                          withoutTabs \o EncodeRune(d.rune), count + 1)

renderTabStops(withTabs, spacesPerTab) ==
  IF ~ContainsRune(withTabs, 0, Tab)
    THEN withTabs
    ELSE TabScan(withTabs, 0, spacesPerTab, <<>>, 0)

(***************************************************************************)
(* detailStruct, as the stages of its code.                                *)
(***************************************************************************)
spacesPerTab == 2

RECURSIVE LineEndScan(_, _, _)
LineEndScan(contents, lineStart, i) ==
  IF lineStart + i >= Len(contents) THEN Len(contents)
  ELSE LET d == DecodeRune(contents, lineStart + i)
       IN  IF d.rune \in {CR, LF, LineSeparator, ParagraphSeparator}
             THEN lineStart + i
             ELSE LineEndScan(contents, lineStart, i + d.size)

Ellipsis == <<Dot, Dot, Dot>>

\* Lines 329-340: the line of msg.Start.
LineBounds(contents, c) ==
  [lineCount |-> c.lineCount, columnCount |-> c.columnCount,
   lineStart |-> c.lastLineStart,
   lineEnd |-> LineEndScan(contents, c.lastLineStart, 0)]

LocateLine(contents, Start) ==
  LineBounds(contents, ComputeLineAndColumn(GoSlice(contents, 0, Start)))

\* Lines 354-363: clip the marker to the bounds of the line.
ClipMarker(markerStart, markerEnd, lineLen) ==
  LET mStart == IF markerStart > lineLen THEN lineLen ELSE markerStart
      mEnd == IF markerEnd > lineLen THEN lineLen ELSE markerEnd
  IN  [markerStart |-> mStart,
       markerEnd |-> IF mEnd < mStart THEN mStart ELSE mEnd]

\* Lines 342-363: the expanded line, the indent and the marker.
MarkedLine(lineText, indent, extended) ==
  [lineText |-> lineText, indent |-> indent,
   marker |-> ClipMarker(indent, extended, Len(lineText))]

MarkLine(contents, Start, Length, loc) ==
  MarkedLine(
    renderTabStops(GoSlice(contents, loc.lineStart, loc.lineEnd), spacesPerTab),
    Len(renderTabStops(GoSlice(contents, loc.lineStart, Start), spacesPerTab)),
    IF Length > 0
      THEN Len(renderTabStops(GoSlice(contents, loc.lineStart, Start + Length),
                              spacesPerTab))
      ELSE Len(renderTabStops(GoSlice(contents, loc.lineStart, Start), spacesPerTab)))

\* Lines 367-377: try to center the error.
Centered(markerStart, markerEnd, Width) ==
  GoDiv(markerStart + markerEnd - Width, 2)

LeftBias(sliceStart, markerStart, Width) ==
  IF sliceStart > markerStart - GoDiv(Width, 5)
    THEN markerStart - GoDiv(Width, 5)
    ELSE sliceStart

NonNegative(sliceStart) == IF sliceStart < 0 THEN 0 ELSE sliceStart

AtMost(sliceStart, limit) == IF sliceStart > limit THEN limit ELSE sliceStart

SliceStart(markerStart, markerEnd, lineLen, Width) ==
  AtMost(
    NonNegative(LeftBias(Centered(markerStart, markerEnd, Width), markerStart, Width)),
    lineLen - Width)

\* Lines 378-389: slice the line and move the marker into the slice.
SliceLine(lineText, markerStart, markerEnd, Width, sliceStart) ==
  [slicedLine |-> GoSlice(lineText, sliceStart, sliceStart + Width),
   markerStart |-> IF markerStart - sliceStart < 0 THEN 0 ELSE markerStart - sliceStart,
   markerEnd |-> IF markerEnd - sliceStart > Width THEN Width ELSE markerEnd - sliceStart,
   sliceStart |-> sliceStart,
   sliceEnd |-> sliceStart + Width]

\* Lines 391-397: truncate the left end with "...".
TruncateLeft(t) ==
  IF Len(t.slicedLine) > 3 /\ t.sliceStart > 0
    THEN [t EXCEPT !.slicedLine = Ellipsis \o GoSlice(t.slicedLine, 3, Len(t.slicedLine)),
                   !.markerStart = IF t.markerStart < 3 THEN 3 ELSE t.markerStart]
    ELSE t

\* Lines 398-406: truncate the right end with "...".
MarkerEndBefore(markerEnd, markerStart, limit) ==
  IF AtMost(markerEnd, limit) < markerStart THEN markerStart ELSE AtMost(markerEnd, limit)

TruncateRight(t, lineLen) ==
  IF Len(t.slicedLine) > 3 /\ t.sliceEnd < lineLen
    THEN [t EXCEPT !.slicedLine = GoSlice(t.slicedLine, 0, Len(t.slicedLine) - 3)
                                    \o Ellipsis,
                   !.markerEnd = MarkerEndBefore(t.markerEnd, t.markerStart,
                                                 Len(t.slicedLine) - 3)]
    ELSE t

\* Lines 365-411: trim the line to fit the terminal width.
Trimmed(t) ==
  [lineText |-> t.slicedLine, indent |-> t.markerStart,
   markerStart |-> t.markerStart, markerEnd |-> t.markerEnd,
   sliceStart |-> t.sliceStart, sliceEnd |-> t.sliceEnd]

TrimToWidth(lineText, markerStart, markerEnd, Width) ==
  Trimmed(TruncateRight(
            TruncateLeft(
              SliceLine(lineText, markerStart, markerEnd, Width,
                        SliceStart(markerStart, markerEnd, Len(lineText), Width))),
            Len(lineText)))

FitWidth(m, Width) ==
  IF Width > 0 /\ Len(m.lineText) > Width
    THEN TrimToWidth(m.lineText, m.marker.markerStart, m.marker.markerEnd, Width)
    ELSE [lineText |-> m.lineText, indent |-> m.indent,
          markerStart |-> m.marker.markerStart, markerEnd |-> m.marker.markerEnd,
          sliceStart |-> 0, sliceEnd |-> Len(m.lineText)]

\* Lines 413-437: the marker and the MsgDetail.  Besides the fields of
\* MsgDetail that depend on the position, the result holds, for the
\* properties, the line before trimming and the final values of sliceStart,
\* sliceEnd, markerStart and markerEnd.  panic: a slice expression or
\* strings.Repeat is out of range and the function does not return.
SlicesInRange(t) ==
  /\ t.indent >= 0
  /\ 0 <= t.markerStart
  /\ t.markerStart <= t.markerEnd
  /\ t.markerEnd <= Len(t.lineText)

MsgDetailTildeFromOne(loc, fullLine, Width, t) ==
  [panic |-> ~SlicesInRange(t),
   Line |-> loc.lineCount + 1,
   Column |-> loc.columnCount,
   Source |-> t.lineText,
   SourceBefore |-> IF SlicesInRange(t)
                      THEN GoSlice(t.lineText, 0, t.markerStart) ELSE <<>>,
   SourceMarked |-> IF SlicesInRange(t)
                      THEN GoSlice(t.lineText, t.markerStart, t.markerEnd) ELSE <<>>,
   SourceAfter |-> IF SlicesInRange(t)
                     THEN GoSlice(t.lineText, t.markerEnd, Len(t.lineText)) ELSE <<>>,
   Indent |-> Repeat(Space, t.indent),
   Marker |-> IF t.markerEnd - t.markerStart > 0
                THEN Repeat(Tilde, t.markerEnd - t.markerStart)
                ELSE <<Caret>>,
   fullLine |-> fullLine,
   sliceStart |-> t.sliceStart,
   sliceEnd |-> t.sliceEnd,
   markerStart |-> t.markerStart,
   markerEnd |-> t.markerEnd]

MsgDetail(loc, fullLine, Width, t) ==
  [panic |-> ~SlicesInRange(t),
   Line |-> loc.lineCount + 1,
   Column |-> loc.columnCount,
   Source |-> t.lineText,
   SourceBefore |-> IF SlicesInRange(t)
                      THEN GoSlice(t.lineText, 0, t.markerStart) ELSE <<>>,
   SourceMarked |-> IF SlicesInRange(t)
                      THEN GoSlice(t.lineText, t.markerStart, t.markerEnd) ELSE <<>>,
   SourceAfter |-> IF SlicesInRange(t)
                     THEN GoSlice(t.lineText, t.markerEnd, Len(t.lineText)) ELSE <<>>,
   Indent |-> Repeat(Space, t.indent),
   Marker |-> IF t.markerEnd - t.markerStart > 1
                THEN Repeat(Tilde, t.markerEnd - t.markerStart)
                ELSE <<Caret>>,
   fullLine |-> fullLine,
   sliceStart |-> t.sliceStart,
   sliceEnd |-> t.sliceEnd,
   markerStart |-> t.markerStart,
   markerEnd |-> t.markerEnd]

DetailOfMarked(loc, Width, m) == MsgDetail(loc, m.lineText, Width, FitWidth(m, Width))

DetailOfLine(contents, Start, Length, Width, loc) ==
  DetailOfMarked(loc, Width, MarkLine(contents, Start, Length, loc))

detailStruct(contents, Start, Length, Width) ==
  DetailOfLine(contents, Start, Length, Width, LocateLine(contents, Start))

(***************************************************************************)
(* Calls of the pure functions.  No sink is running: its variables stay as *)
(* NoSink leaves them.                                                     *)
(***************************************************************************)
NoSink ==
  /\ flavor = "none"
  /\ options = [ErrorLimit |-> 0, LogLevel |-> LevelNone]
  /\ SinkStart

SinkUnchanged ==
  UNCHANGED <<flavor, options, ppc, sending, calls, closed, wpc, msg, result,
              stderr, jpc, joinResult, returned, aborted, accepted>>

SeqsUpTo(S, n) == UNION {[1..k -> S] : k \in 0..n}

RECURSIVE Flatten(_)
Flatten(ss) == IF ss = <<>> THEN <<>> ELSE Head(ss) \o Flatten(Tail(ss))

\* plural(prefix, count) and stderrLogInfo.String() for counts up to MaxCount.
SummaryInit ==
  /\ NoSink
  /\ \/ \E e \in 0..MaxCount, w \in 0..MaxCount :
          input = [op |-> "String", errors |-> e, warnings |-> w]
     \/ \E n \in 0..MaxCount, noun \in {"error", "warning"} :
          input = [op |-> "plural", prefix |-> noun, count |-> n]
  /\ output = NoOutput

CallString ==
  /\ input.op = "String"
  /\ output = NoOutput
  /\ output' = [op |-> "String",
                text |-> String([EmptyInfo EXCEPT !.errors = input.errors,
                                                  !.warnings = input.warnings])]
  /\ UNCHANGED input
  /\ SinkUnchanged

CallPlural ==
  /\ input.op = "plural"
  /\ output = NoOutput
  /\ output' = [op |-> "plural", text |-> plural(input.prefix, input.count)]
  /\ UNCHANGED input
  /\ SinkUnchanged

SummaryNext == CallString \/ CallPlural

SummarySpec == SummaryInit /\ [][SummaryNext]_vars

\* source.RangeOfString(loc) for the texts of quotes, backslashes and letters.
QuoteTexts == SeqsUpTo({DoubleQuote, SingleQuote, Backslash, 97}, MaxQuoteLen)

QuoteInit ==
  /\ NoSink
  /\ \E c \in QuoteTexts : \E loc \in 0..Len(c) :
       input = [op |-> "RangeOfString", Contents |-> c, loc |-> loc]
  /\ output = NoOutput

CallRangeOfString ==
  /\ input.op = "RangeOfString"
  /\ output = NoOutput
  /\ output' = [op |-> "RangeOfString",
                r |-> RangeOfString(input.Contents, input.loc)]
  /\ UNCHANGED input
  /\ SinkUnchanged

QuoteNext == CallRangeOfString

QuoteSpec == QuoteInit /\ [][QuoteNext]_vars

\* The line and the column detailStruct reports for msg.Start, for texts of
\* letters and line boundaries and a Start between two code points.
LineTokens == {<<97>>, <<LF>>, <<CR>>, <<226, 128, 168>>, <<226, 128, 169>>}

LineColInit ==
  /\ NoSink
  /\ \E before \in SeqsUpTo(LineTokens, MaxLineTokens) :
       \E after \in SeqsUpTo(LineTokens, MaxLineTokens - Len(before)) :
         input = [op |-> "ComputeLineAndColumn",
                  Contents |-> Flatten(before) \o Flatten(after),
                  Start |-> Len(Flatten(before))]
  /\ output = NoOutput

CallComputeLineAndColumn ==
  /\ input.op = "ComputeLineAndColumn"
  /\ output = NoOutput
  /\ LET c == ComputeLineAndColumn(GoSlice(input.Contents, 0, input.Start))
     IN  output' = [op |-> "ComputeLineAndColumn",
                    Line |-> c.lineCount + 1,
                    Column |-> c.columnCount,
                    lineStart |-> c.lastLineStart]
  /\ UNCHANGED input
  /\ SinkUnchanged

LineColNext == CallComputeLineAndColumn

LineColSpec == LineColInit /\ [][LineColNext]_vars

\* detailStruct(msg, terminalInfo) for the texts of dots, tabs and newlines
\* (the code treats a dot like every other character that is neither a tab
\* nor a line boundary), every range within the text and every width up to
\* MaxWidth.
DetailTexts == SeqsUpTo({Dot, Tab, LF}, MaxTextLen)

DetailInit ==
  /\ NoSink
  /\ \E c \in DetailTexts : input = [op |-> "detailStruct", Contents |-> c]
  /\ output = NoOutput

CallDetailStruct ==
  /\ input.op = "detailStruct"
  /\ output = NoOutput
  /\ \E Start \in 0..Len(input.Contents) :
       \E Length \in 0..(Len(input.Contents) - Start) :
         \E Width \in 0..MaxWidth :
           output' = [op |-> "detailStruct", Start |-> Start, Length |-> Length,
                      Width |-> Width,
                      d |-> detailStruct(input.Contents, Start, Length, Width)]
  /\ UNCHANGED input
  /\ SinkUnchanged

DetailNext == CallDetailStruct

DetailSpec == DetailInit /\ [][DetailNext]_vars

\* detailStruct(msg, terminalInfo) without a width limit, for one-line texts
\* of tabs, dots and the three-byte character U+20AC, and a point range at
\* the start of a character or at the end of the text.
TabTokens == {<<Tab>>, <<Dot>>, <<226, 130, 172>>}

TabInit ==
  /\ NoSink
  /\ \E tokens \in SeqsUpTo(TabTokens, MaxTabTokens) :
       input = [op |-> "detailStruct", Contents |-> Flatten(tokens)]
  /\ output = NoOutput

\* The Go indices of text at or after i where a code point starts, and len(text).
RECURSIVE RuneBoundaries(_, _)
RuneBoundaries(text, i) ==
  IF i >= Len(text) THEN {Len(text)}
  ELSE {i} \cup RuneBoundaries(text, i + DecodeRune(text, i).size)

CallDetailStructAtRune ==
  /\ input.op = "detailStruct"
  /\ output = NoOutput
  /\ \E Start \in RuneBoundaries(input.Contents, 0) :
       output' = [op |-> "detailStruct", Start |-> Start, Length |-> 0,
                  Width |-> 0,
                  d |-> detailStruct(input.Contents, Start, 0, 0)]
  /\ UNCHANGED input
  /\ SinkUnchanged

TabNext == CallDetailStructAtRune

TabSpec == TabInit /\ [][TabNext]_vars

(***************************************************************************)
(* Vocabulary of the properties of the sinks.                              *)
(***************************************************************************)
Range(seq) == {seq[i] : i \in DOMAIN seq}

Occurrences(seq, m) == Cardinality({i \in DOMAIN seq : seq[i] = m})

\* The enqueue calls of producer p that have returned: all it started but
\* the one it is still blocked in or panicked in.
Completed(p) == Len(calls[p]) - (IF ppc[p] = "ready" THEN 0 ELSE 1)

CompletedMsgs == UNION {{calls[p][n] : n \in 1..Completed(p)} : p \in Producers}

FromProducer(seq, p) == SelectSeq(seq, LAMBDA m : m \in Range(calls[p]))

Rendered(m) == [line |-> "msg", text |-> MsgString(m)]

NumKind(seq, kind) == Cardinality({i \in DOMAIN seq : seq[i].Kind = kind})

\* The index in seq of its n-th message of the given kind (0: there is none).
NthOfKind(seq, kind, n) ==
  LET S == {i \in DOMAIN seq : seq[i].Kind = kind
                               /\ NumKind(SubSeq(seq, 1, i), kind) = n}
  IN  IF S = {} THEN 0 ELSE CHOOSE i \in S : TRUE

LinesOf(out, line) == {j \in DOMAIN out : out[j].line = line}

(***************************************************************************)
(* C1.  For the interactive sink, whatever the number of producers and the *)
(* interleaving of their enqueue calls, the list finalize returns holds    *)
(* every message whose enqueue call completed exactly once and nothing     *)
(* else, the messages received after the error limit was reached included. *)
(***************************************************************************)
C1_ReturnsEveryAcceptedOnce ==
  (flavor = "stderr" /\ jpc = "returned") =>
    /\ \A m \in CompletedMsgs : Occurrences(returned, m) = 1
    /\ Range(returned) = CompletedMsgs
    /\ Len(returned) = Cardinality(CompletedMsgs)
    /\ Range(accepted) = CompletedMsgs

C1_Witness ==
  /\ flavor = "stderr"
  /\ jpc = "returned"
  /\ joinResult.errorLimitWasHit
  /\ Len(returned) = MaxMsgs
  /\ Len(returned) > joinResult.errors + joinResult.warnings
  /\ \A p \in 1..2 : Completed(p) >= 1

(***************************************************************************)
(* C2.  For the interactive sink with errorLimit = N > 0, once N errors    *)
(* have been processed: exactly N errors were written, exactly one         *)
(* limit-notice line was written, right after the N-th error, nothing is   *)
(* written after it (no message accepted later, no summary), and finalize  *)
(* still returns every message.                                            *)
(***************************************************************************)
C2_LimitEnforced ==
  LET N == options.ErrorLimit
      k == NthOfKind(result.msgs, Error, N)
      errLines == {j \in LinesOf(stderr, "msg") :
                     \E i \in DOMAIN result.msgs :
                        /\ result.msgs[i].Kind = Error
                        /\ stderr[j] = Rendered(result.msgs[i])}
      lim == LinesOf(stderr, "limit")
  IN  (flavor = "stderr" /\ N > 0 /\ k > 0) =>
        /\ Cardinality(errLines) = N
        /\ Cardinality(lim) = 1
        /\ \A j \in lim : /\ j = Len(stderr)
                           /\ j > 1
                           /\ stderr[j - 1] = Rendered(result.msgs[k])
        /\ \A i \in DOMAIN result.msgs :
              i > k => \A j \in DOMAIN stderr : stderr[j] # Rendered(result.msgs[i])
        /\ jpc = "returned" => /\ returned = result.msgs
                               /\ returned = accepted

C2_Witness ==
  /\ flavor = "stderr"
  /\ options.ErrorLimit = 2
  /\ jpc = "returned"
  /\ NumKind(returned, Error) = 3
  /\ Len(returned) = 3
  /\ Len(stderr) = 3
  /\ stderr[3].line = "limit"

(***************************************************************************)
(* C3.  For both sinks and every producer, the messages of that producer   *)
(* stand in the list finalize returns in the order the producer issued     *)
(* them, whatever the interleaving with the other producers.               *)
(***************************************************************************)
C3_ProducerOrder ==
  jpc = "returned" =>
    \A p \in Producers :
      FromProducer(returned, p) = SubSeq(calls[p], 1, Completed(p))

C3_Witness ==
  /\ flavor = "defer"
  /\ jpc = "returned"
  /\ Len(returned) = 3
  /\ returned[1] = calls[1][1]
  /\ returned[2] = calls[2][1]
  /\ returned[3] = calls[1][2]

(***************************************************************************)
(* C4.  As claimed: when finalize is called while enqueue calls are        *)
(* blocked waiting for the worker, each of their messages is in the list   *)
(* finalize returns.  In the code close(log.msgs) panics those senders and *)
(* the worker never receives their messages.                               *)
(***************************************************************************)
InFlightAtClose(p) == ppc[p] = "panicked" /\ sending[p] # NoMsg

C4_InFlightNotDropped ==
  jpc = "returned" =>
    \A p \in Producers : InFlightAtClose(p) => sending[p] \in Range(returned)

(***************************************************************************)
(* C5.  Finalize of the interactive sink writes one summary line, holding  *)
(* the final error and warning counts, if and only if the error limit was  *)
(* never reached, logLevel <= Info and at least one error or warning was   *)
(* counted; otherwise it writes nothing.  The summary is the last line:    *)
(* nothing is written once finalize has returned.                          *)
(***************************************************************************)
ClaimedPlural(n, noun) ==
  IF n = 1 THEN "1 " \o noun ELSE ToString(n) \o " " \o noun \o "s"

ClaimedSummary(e, w) ==
  IF e = 0 /\ w = 0 THEN "no errors"
  ELSE IF w = 0 THEN ClaimedPlural(e, "error")
  ELSE IF e = 0 THEN ClaimedPlural(w, "warning")
  ELSE ClaimedPlural(w, "warning") \o " and " \o ClaimedPlural(e, "error")

LimitReached ==
  options.ErrorLimit # 0 /\ NumKind(accepted, Error) >= options.ErrorLimit

C5_SummaryIff ==
  [][flavor = "stderr" =>
       /\ (jpc = "print" /\ jpc' = "returned") =>
            IF ~LimitReached /\ options.LogLevel <= LevelInfo /\ Len(accepted) > 0
              THEN stderr' = Append(stderr,
                       [line |-> "summary",
                        text |-> ClaimedSummary(NumKind(accepted, Error),
                                                NumKind(accepted, Warning)) \o "\n"])
              ELSE stderr' = stderr
       /\ (jpc' # jpc /\ jpc # "print") => stderr' = stderr
       /\ jpc = "returned" => stderr' = stderr]_vars

C5_Witness ==
  /\ flavor = "stderr"
  /\ jpc = "returned"
  /\ Len(stderr) = 3
  /\ stderr[3] = [line |-> "summary", text |-> "1 warning and 1 error\n"]

(***************************************************************************)
(* C6.  The deferred sink never writes to the output stream and applies no *)
(* limit; its finalize returns every accepted message exactly once, in the *)
(* order the worker accepted them.                                         *)
(***************************************************************************)
C6_DeferNeverWrites ==
  flavor = "defer" =>
    /\ stderr = <<>>
    /\ result.msgs \o (IF wpc = "body" THEN <<msg>> ELSE <<>>) = accepted
    /\ jpc = "returned" =>
         /\ returned = accepted
         /\ Range(returned) = CompletedMsgs
         /\ \A m \in CompletedMsgs : Occurrences(returned, m) = 1

C6_Witness ==
  /\ flavor = "defer"
  /\ jpc = "returned"
  /\ Len(returned) = MaxMsgs
  /\ NumKind(returned, Error) >= 2
  /\ NumKind(returned, Warning) >= 1

(***************************************************************************)
(* C11.  For the interactive sink, the rendered messages on the output     *)
(* stream are a subsequence of the list finalize returns, in the same      *)
(* order: each message is written at most once, and A is written before B  *)
(* only if the worker accepted A before B.                                 *)
(***************************************************************************)
WrittenMsgs == SelectSeq(stderr, LAMBDA l : l.line = "msg")

RenderedSeq(seq) == [i \in DOMAIN seq |-> Rendered(seq[i])]

\* The index of the first element of b at or after index i that is x, or 0.
IndexFrom(b, i, x) ==
  LET S == {j \in i..Len(b) : b[j] = x}
  IN  IF S = {} THEN 0 ELSE CHOOSE j \in S : \A j2 \in S : j <= j2

RECURSIVE IsSubsequenceFrom(_, _, _, _)
IsSubsequenceFrom(a, k, b, i) ==
  IF k > Len(a) THEN TRUE
  ELSE LET j == IndexFrom(b, i, a[k])
       IN  j # 0 /\ IsSubsequenceFrom(a, k + 1, b, j + 1)

IsSubsequence(a, b) == IsSubsequenceFrom(a, 1, b, 1)

C11_WrittenSubsequence ==
  flavor = "stderr" =>
    /\ \A i, j \in DOMAIN WrittenMsgs : i # j => WrittenMsgs[i] # WrittenMsgs[j]
    /\ IsSubsequence(WrittenMsgs, RenderedSeq(accepted))
    /\ jpc = "returned" => IsSubsequence(WrittenMsgs, RenderedSeq(returned))

C11_Witness ==
  /\ flavor = "stderr"
  /\ jpc = "returned"
  /\ options.LogLevel = LevelError
  /\ Len(returned) = 3
  /\ returned[2].Kind = Warning
  /\ WrittenMsgs = <<Rendered(returned[1]), Rendered(returned[3])>>

(***************************************************************************)
(* C12.  For the interactive sink, the worker's processing of a message    *)
(* accepted before the limit is reached adds one to the counter of its     *)
(* kind, written or not, and writes the rendered message if and only if    *)
(* its kind is at or above logLevel (None < Info < Warning < Error): a     *)
(* warning iff logLevel <= Warning, an error iff logLevel <= Error.        *)
(***************************************************************************)
C12_CountedAndWrittenByLevel ==
  [][(flavor = "stderr" /\ wpc = "body" /\ wpc' = "range"
      /\ ~result.errorLimitWasHit) =>
       LET printed == IF msg.Kind = Warning
                        THEN options.LogLevel <= LevelWarning
                        ELSE options.LogLevel <= LevelError
           added == SubSeq(stderr', Len(stderr) + 1, Len(stderr'))
       IN  /\ result'.errors = result.errors + (IF msg.Kind = Error THEN 1 ELSE 0)
           /\ result'.warnings = result.warnings + (IF msg.Kind = Warning THEN 1 ELSE 0)
           /\ SubSeq(stderr', 1, Len(stderr)) = stderr
           /\ printed <=> (added # <<>> /\ added[1] = Rendered(msg))
           /\ \A i \in DOMAIN added : added[i].line = "msg" => (printed /\ i = 1)]_vars

C12_Witness ==
  /\ flavor = "stderr"
  /\ options.LogLevel = LevelError
  /\ options.ErrorLimit = 0
  /\ wpc = "range"
  /\ result.warnings = 2
  /\ result.errors = 1
  /\ stderr = <<Rendered(result.msgs[2])>>

(***************************************************************************)
(* C13.  For both sinks, once finalize has been called with every enqueue  *)
(* call of the producers finished (none blocked in a send, none started    *)
(* later), finalize eventually returns: the worker leaves its loop, hands  *)
(* its result over exactly once and exits, and finalize receives it and    *)
(* returns.                                                                *)
(***************************************************************************)
ProducerPanicked == \E p \in Producers : ppc[p] = "panicked"

C13_FinalizeReturns ==
  /\ (jpc = "recv" /\ ~ProducerPanicked)
       ~> ((jpc = "returned" /\ wpc = "exit") \/ ProducerPanicked)
  /\ [][/\ wpc = "done" => wpc' \in {"done", "exit"}
        /\ wpc = "exit" => wpc' = "exit"
        /\ (wpc = "done" /\ wpc' = "exit") => (jpc = "recv" /\ jpc' = "print")]_vars

C13_Witness ==
  /\ jpc = "returned"
  /\ wpc = "exit"
  /\ flavor = "stderr"
  /\ ~ProducerPanicked
  /\ TotalCalls = MaxMsgs
  /\ returned = accepted
  /\ \A p \in Producers : Completed(p) >= 1

(***************************************************************************)
(* C14.  As claimed: enqueue is a synchronous handoff with no buffering.   *)
(* Every enqueue call that has returned had its message accepted, the      *)
(* worker holds at most one accepted message it has not fully processed    *)
(* (the one of its current loop iteration), and at every moment every      *)
(* producer with an unaccepted message is blocked in its send.  In the     *)
(* code a sender that is blocked when finalize closes the channel, or that *)
(* sends afterwards, is not blocked: it panics with its message            *)
(* unaccepted.                                                             *)
(***************************************************************************)
C14_SynchronousHandoff ==
  /\ \A m \in CompletedMsgs : m \in Range(accepted)
  /\ accepted = result.msgs \o (IF wpc = "body" THEN <<msg>> ELSE <<>>)
  /\ \A p \in Producers :
       \A n \in DOMAIN calls[p] :
         calls[p][n] \notin Range(accepted) =>
           /\ ppc[p] = "blocked"
           /\ sending[p] = calls[p][n]
           /\ n = Len(calls[p])

\* What holds of the handoff in every state: a producer with an unaccepted
\* message is blocked, or has panicked on the closed channel.
HandoffUntilClose ==
  /\ \A m \in CompletedMsgs : m \in Range(accepted)
  /\ accepted = result.msgs \o (IF wpc = "body" THEN <<msg>> ELSE <<>>)
  /\ \A p \in Producers :
       \A n \in DOMAIN calls[p] :
         calls[p][n] \notin Range(accepted) =>
           /\ ppc[p] \in {"blocked", "panicked"}
           /\ ppc[p] = "panicked" => closed
           /\ n = Len(calls[p])

(***************************************************************************)
(* C19.  In every state of the interactive sink's worker with              *)
(* errorLimit = N > 0: the error counter never exceeds N, limit-reached is *)
(* set exactly when the error counter equals N, and the counters hold the  *)
(* errors and warnings among the messages accepted up to the N-th error:   *)
(* messages accepted afterwards are not counted.  The limit notice reports *)
(* N errors and the warnings accepted before the N-th error.               *)
(***************************************************************************)
\* The messages the worker has processed up to its N-th error, or all of
\* them when it has not processed N errors.
CountedMsgs ==
  LET k == NthOfKind(result.msgs, Error, options.ErrorLimit)
  IN  IF k = 0 THEN result.msgs ELSE SubSeq(result.msgs, 1, k)

C19_CountersFrozenAtLimit ==
  (flavor = "stderr" /\ options.ErrorLimit > 0) =>
    /\ result.errors <= options.ErrorLimit
    /\ result.errorLimitWasHit <=> result.errors = options.ErrorLimit
    /\ result.errors = NumKind(CountedMsgs, Error)
    /\ result.warnings = NumKind(CountedMsgs, Warning)
    /\ \A j \in LinesOf(stderr, "limit") :
         /\ result.errorLimitWasHit
         /\ stderr[j].text =
              ClaimedSummary(options.ErrorLimit, NumKind(CountedMsgs, Warning))
                \o " reached (disable error limit with --error-limit=0)\n"
    /\ result.errorLimitWasHit => LinesOf(stderr, "limit") # {}

C19_Witness ==
  /\ flavor = "stderr"
  /\ options.ErrorLimit = 1
  /\ result.errorLimitWasHit
  /\ Len(result.msgs) = 3
  /\ result.msgs[1].Kind = Warning
  /\ result.msgs[3].Kind = Error
  /\ result.errors = 1
  /\ result.warnings = 1
  /\ \E j \in DOMAIN stderr :
       stderr[j] = [line |-> "limit",
                    text |-> "1 warning and 1 error reached (disable error limit with --error-limit=0)\n"]

(***************************************************************************)
(* Vocabulary of the properties of the pure functions.                     *)
(***************************************************************************)
RECURSIVE RunesOf(_, _)
RunesOf(text, i) ==
  IF i >= Len(text) THEN <<>>
  ELSE <<DecodeRune(text, i).rune>> \o RunesOf(text, i + DecodeRune(text, i).size)

BoundaryRunes == {LF, CR, LineSeparator, ParagraphSeparator}

\* The line boundaries among the code points r, a CR LF pair counting once.
LineBoundaries(r) ==
  Cardinality({i \in DOMAIN r :
                 /\ r[i] \in BoundaryRunes
                 /\ ~(r[i] = LF /\ i > 1 /\ r[i - 1] = CR)})

BeginsWith(seq, pre) ==
  Len(seq) >= Len(pre) /\ SubSeq(seq, 1, Len(pre)) = pre

EndsWith(seq, suf) ==
  Len(seq) >= Len(suf) /\ SubSeq(seq, Len(seq) - Len(suf) + 1, Len(seq)) = suf

\* detailStruct took the width clipping branch (line 366).
TrimCase ==
  /\ output.op = "detailStruct"
  /\ output.Width > 0
  /\ Len(output.d.fullLine) > output.Width

\* The marker bounds split the displayed line (lines 430-433).
MarkerInside(d) ==
  /\ ~d.panic
  /\ 0 <= d.markerStart
  /\ d.markerStart <= d.markerEnd
  /\ d.markerEnd <= Len(d.Source)
  /\ d.Source = d.SourceBefore \o d.SourceMarked \o d.SourceAfter
  /\ Len(d.SourceBefore) = d.markerStart
  /\ Len(d.SourceMarked) = d.markerEnd - d.markerStart

\* The length of the run of backslashes that ends right before the 1-based
\* position j and starts after the opening quote.
BackslashesBefore(text, j) ==
  CHOOSE k \in 0..(j - 2) :
    /\ \A i \in (j - k)..(j - 1) : text[i] = Backslash
    /\ k = j - 2 \/ text[j - k - 1] # Backslash

\* The 1-based position of the first closing quote that is not skipped, or 0.
ClaimedQuoteLen(text) ==
  IF Len(text) = 0 THEN 0
  ELSE IF text[1] \notin {DoubleQuote, SingleQuote} THEN 0
  ELSE LET closing == {j \in 2..Len(text) :
                         /\ text[j] = text[1]
                         /\ BackslashesBefore(text, j) % 2 = 0}
       IN  IF closing = {} THEN 0
           ELSE CHOOSE j \in closing : \A j2 \in closing : j <= j2

(***************************************************************************)
(* C7.  As claimed: the line reported for an offset is 1 plus the number   *)
(* of line boundaries before it, CR LF counting as one boundary.  The code *)
(* counts only the LF that does not follow a CR: CR, CR LF, U+2028 and     *)
(* U+2029 move lineStart and leave the line count as it is.                *)
(***************************************************************************)
C7_LineNumber ==
  output.op = "ComputeLineAndColumn" =>
    output.Line =
      1 + LineBoundaries(RunesOf(GoSlice(input.Contents, 0, input.Start), 0))

(***************************************************************************)
(* C8.  As claimed: when the expanded line is longer than the width w > 0, *)
(* the displayed line has w columns, for w > 3 it begins with "..."        *)
(* exactly when the slice leaves out the left edge of the line and ends    *)
(* with "..." exactly when it leaves out the right edge, and the marker    *)
(* lies within the displayed line.  The code raises markerStart to 3 under *)
(* the left "..." and lowers markerEnd only when it also cuts the right    *)
(* edge, so a marker in the first three columns of a slice that reaches    *)
(* the right edge ends before it starts and the split of the line panics.  *)
(***************************************************************************)
C8_TrimEllipsisExactly ==
  TrimCase =>
    LET d == output.d
        w == output.Width
    IN  /\ Len(d.Source) = w
        /\ w > 3 => /\ BeginsWith(d.Source, Ellipsis) <=> d.sliceStart > 0
                    /\ EndsWith(d.Source, Ellipsis) <=> d.sliceEnd < Len(d.fullLine)
        /\ MarkerInside(d)

(***************************************************************************)
(* C9.  The summary is "no errors" for no error and no warning, the        *)
(* errors phrase for no warning, the warnings phrase for no error, and     *)
(* otherwise "<warnings> and <errors>"; plural(n, noun) is "1 <noun>" for  *)
(* n = 1 and "<n> <noun>s" for every other n.                              *)
(***************************************************************************)
C9_SummaryText ==
  /\ output.op = "String" =>
       output.text = ClaimedSummary(input.errors, input.warnings)
  /\ output.op = "plural" =>
       output.text = ClaimedPlural(input.count, input.prefix)

C9_Witness ==
  /\ output.op = "String"
  /\ input.errors = 1
  /\ input.warnings = 2
  /\ output.text = "2 warnings and 1 error"

(***************************************************************************)
(* C10.  RangeOfString: when the byte at loc is a quote, the range starts  *)
(* at loc and ends with the first later byte that is the same quote and is *)
(* not skipped, a byte being skipped when the backslashes right before it  *)
(* (after the opening quote) are odd in number: each backslash that is     *)
(* not itself skipped skips the next byte.  The length is 0 when the text  *)
(* at loc is empty, does not start with a quote or has no such byte.       *)
(***************************************************************************)
C10_RangeOfString ==
  output.op = "RangeOfString" =>
    output.r = [Loc |-> input.loc,
                Len |-> ClaimedQuoteLen(GoSlice(input.Contents, input.loc,
                                                Len(input.Contents)))]

C10_Witness ==
  /\ output.op = "RangeOfString"
  /\ input.loc = 1
  /\ input.Contents = <<97, SingleQuote, Backslash, SingleQuote, SingleQuote>>
  /\ output.r = [Loc |-> 1, Len |-> 4]

(***************************************************************************)
(* C15.  As claimed: the column reported for an offset is the byte count   *)
(* start - lineStart, lineStart being the position just after the last     *)
(* boundary character (LF, CR, U+2028, U+2029) in contents[0:start], or 0  *)
(* when there is none.  The code sets lineStart to i + 1, i the index of   *)
(* the first byte of the boundary character: right for LF and CR, inside   *)
(* the three bytes of U+2028 and U+2029.                                   *)
(***************************************************************************)
\* The Go index just after the last boundary code point of text at or after
\* index i, or last when there is none.
RECURSIVE LastBoundaryEnd(_, _, _)
LastBoundaryEnd(text, i, last) ==
  IF i >= Len(text) THEN last
  ELSE LET d == DecodeRune(text, i)
       IN  LastBoundaryEnd(text, i + d.size,
                           IF d.rune \in BoundaryRunes THEN i + d.size ELSE last)

C15_Column ==
  output.op = "ComputeLineAndColumn" =>
    LET lineStart == LastBoundaryEnd(GoSlice(input.Contents, 0, input.Start), 0, 0)
    IN  /\ output.lineStart = lineStart
        /\ output.Column = input.Start - lineStart

(***************************************************************************)
(* C16.  As claimed: tab expansion with width 2.  In the displayed line    *)
(* every tab is replaced by 1 or 2 spaces so that the next character       *)
(* starts at the next even column, and every other character advances the  *)
(* column by 1; the expansion of contents[lineStart:start] is a prefix of  *)
(* the expansion of the line, and the marker indent (markerStart) is the   *)
(* expanded column at which the character at start is displayed.  The code *)
(* counts columns in characters when it expands tabs and takes the marker  *)
(* indent as a number of bytes, so the indent is too wide after every      *)
(* character of more than one byte.                                        *)
(***************************************************************************)
\* The characters displayed for the characters runes[k..], acc being those
\* displayed so far: its length is the current expanded column.
RECURSIVE ExpandedFrom(_, _, _)
ExpandedFrom(runes, k, acc) ==
  IF k > Len(runes) THEN acc
  ELSE IF runes[k] = Tab
    THEN ExpandedFrom(runes, k + 1,
                      acc \o (IF Len(acc) % 2 = 0 THEN <<Space, Space>> ELSE <<Space>>))
    ELSE ExpandedFrom(runes, k + 1, acc \o <<runes[k]>>)

Expanded(text) == ExpandedFrom(RunesOf(text, 0), 1, <<>>)

\* The text is one line and detailStruct was called without a width limit.
OneLineUnclipped ==
  /\ output.op = "detailStruct"
  /\ output.Width = 0
  /\ \A i \in DOMAIN input.Contents : input.Contents[i] # LF

C16_TabExpansion ==
  OneLineUnclipped =>
    LET d == output.d
        before == Expanded(GoSlice(input.Contents, 0, output.Start))
    IN  /\ RunesOf(d.Source, 0) = Expanded(input.Contents)
        /\ BeginsWith(Expanded(input.Contents), before)
        /\ d.markerStart = Len(before)
        /\ d.Indent = Repeat(Space, Len(before))

(***************************************************************************)
(* C17.  Marker glyph: the marker is markerEnd - markerStart '~'           *)
(* characters when the final markerEnd - markerStart is greater than 1,    *)
(* and a single '^' otherwise.  Without width clipping, a range of no or   *)
(* one expanded column yields "^" and a range of n > 1 expanded columns    *)
(* inside the line yields n tildes.                                        *)
(***************************************************************************)
Glyph(n) == IF n > 1 THEN Repeat(Tilde, n) ELSE <<Caret>>

\* detailStruct was called for a range inside one line, and did not clip.
RangeInLineUnclipped ==
  /\ output.op = "detailStruct"
  /\ ~TrimCase
  /\ \A i \in (output.Start + 1)..(output.Start + output.Length) :
       input.Contents[i] # LF

C18_MarkerBounds ==
  output.op = "detailStruct" =>
    LET d == output.d
    IN  /\ 0 <= d.markerStart
        /\ d.markerStart <= d.markerEnd
        /\ d.markerEnd <= Len(d.Source)
        /\ ~d.panic
        /\ d.SourceBefore = GoSlice(d.Source, 0, d.markerStart)
        /\ d.SourceMarked = GoSlice(d.Source, d.markerStart, d.markerEnd)
        /\ d.SourceAfter = GoSlice(d.Source, d.markerEnd, Len(d.Source))
        /\ d.SourceBefore \o d.SourceMarked \o d.SourceAfter = d.Source

\* What holds of the marker bounds: they split the line whenever the line
\* is not clipped to a width.
MarkerBoundsUnclipped ==
  (output.op = "detailStruct" /\ ~TrimCase) => MarkerInside(output.d)

====
